---- MODULE Spec2Model ----
(***************************************************************************)
(* Model of jasmine-utils-lite.js: the reflective property walk            *)
(* forEachWritableProperties and the spy helpers built on it (spyIf,       *)
(* spyAllExcept, resetAllExcept, resetAll, getCallWithArg).                *)
(*                                                                         *)
(* A JavaScript heap is modelled as a function from object ids to records  *)
(*   inh  : the object's [[Prototype]] (what Object.getPrototypeOf gives), *)
(*   slot : the value of its own "prototype" property (null when absent;   *)
(*          non-enumerable and writable, as on constructors),              *)
(*   own  : its own property descriptors for the names of Names.           *)
(* Spies are handles 1..Len(spies) into the sequence spies, which holds    *)
(* each spy's recorded calls.                                              *)
(***************************************************************************)
EXTENDS Integers, Sequences, FiniteSets, TLC

VARIABLES heap, spies, op, methodsToSkip, pc, currentProto, foundProps,
          pending, props, visits, walked, input, ret, i, callWithArg

vars == <<heap, spies, op, methodsToSkip, pc, currentProto, foundProps,
          pending, props, visits, walked, input, ret, i, callWithArg>>

walkVars == <<pc, currentProto, foundProps, pending, props, visits, walked>>
callVars == <<input, ret, i, callWithArg>>

(* ---------------------------------------------------------------------- *)
(* Bounds                                                                 *)
(* ---------------------------------------------------------------------- *)
MaxLevels == 2   \* longest chain of "prototype" slots of a target
MaxProps == 3    \* most own properties defined over the whole target
MaxWalked == 4   \* levels a walk may enter before the model stops following it
MaxCalls == 3    \* most call records of one spy
MaxArgs == 2     \* most arguments of one call record

(* ---------------------------------------------------------------------- *)
(* Objects, names and values                                              *)
(* ---------------------------------------------------------------------- *)
null == 0              \* null / undefined object reference
ObjectPrototype == 0   \* Object.prototype, the [[Prototype]] of plain objects

Levels == 1..MaxLevels
Anc == MaxLevels + 1   \* an inheritance ancestor shared by the levels that use it
Objs == 1..Anc

NameSeq == <<"foo", "toString">>   \* enumeration order of the names
Names == {NameSeq[k] : k \in 1..Len(NameSeq)}
RootNames == {"toString"}          \* names Object.prototype itself defines

Undef == [t |-> "undefined", id |-> 0]
Fn == [t |-> "function", id |-> 0]
Num == [t |-> "number", id |-> 0]
Spy(s) == [t |-> "spy", id |-> s]

NoProp == [kind |-> "none", val |-> Undef, enum |-> FALSE, writable |-> FALSE]
Data(v, e, w) == [kind |-> "data", val |-> v, enum |-> e, writable |-> w]
\* an accessor whose getter throws; its descriptor has no "writable" field
Getter(e) == [kind |-> "getter", val |-> Undef, enum |-> e, writable |-> FALSE]

isSpy(v) == v.t = "spy"
\* typeof v === 'function' (a spy is a function too)
isFunction(v) == v.t \in {"function", "spy"}

HasOwn(h, o, name) == name \in Names /\ h[o].own[name].kind # "none"

RECURSIVE Owner(_, _, _)
\* the object of o's inheritance chain that holds name as an own property
Owner(h, o, name) ==
  IF o = ObjectPrototype THEN ObjectPrototype
  ELSE IF HasOwn(h, o, name) THEN o
  ELSE Owner(h, h[o].inh, name)

RECURSIVE ProtoSlot(_, _)
\* o.prototype: the own "prototype" property, else an inherited one
ProtoSlot(h, o) ==
  IF o = ObjectPrototype THEN null
  ELSE IF h[o].slot # null THEN h[o].slot
  ELSE ProtoSlot(h, h[o].inh)

\* reading o[name] throws
ReadThrows(h, o, name) ==
  /\ name \in Names
  /\ Owner(h, o, name) # ObjectPrototype
  /\ h[Owner(h, o, name)].own[name].kind = "getter"

\* the value of o[name] when the read does not throw
Get(h, o, name) ==
  IF name \notin Names THEN Undef
  ELSE IF Owner(h, o, name) = ObjectPrototype
       THEN (IF name \in RootNames THEN Fn ELSE Undef)
       ELSE h[Owner(h, o, name)].own[name].val

RECURSIVE ForIn(_, _, _)
\* for (var i in o): the enumerable names of o and of its inheritance chain,
\* own names first, a name shadowed nearer to o left out
ForIn(h, o, shadowed) ==
  IF o = ObjectPrototype THEN <<>>
  ELSE LET own == {n \in Names : HasOwn(h, o, n)}
           here == SelectSeq(NameSeq,
                     LAMBDA n : n \in own /\ n \notin shadowed /\ h[o].own[n].enum)
       IN here \o ForIn(h, h[o].inh, shadowed \cup own)

\* Object.getOwnPropertyNames(o), the non-enumerable ones included
getOwnPropertyNames(h, o) ==
  SelectSeq(NameSeq, LAMBDA n : HasOwn(h, o, n))
    \o (IF h[o].slot # null THEN <<"prototype">> ELSE <<>>)

InSeq(s, x) == \E k \in 1..Len(s) : s[k] = x

\* lines 177-184: the filter callback returns true exactly when the read throws
KeepName(h, o, name) == ReadThrows(h, o, name)

RECURSIVE PushNew(_, _)
\* lines 189-193: push the ancestor's names that are not collected yet
PushNew(acc, names) ==
  IF names = <<>> THEN acc
  ELSE LET p == Head(names)
       IN PushNew(IF p # "constructor" /\ ~InSeq(acc, p) THEN Append(acc, p) ELSE acc,
                  Tail(names))

\* lines 177-195: the names of the second pass
CollectedProps(h, o) ==
  LET own == SelectSeq(getOwnPropertyNames(h, o), LAMBDA n : KeepName(h, o, n))
  IN IF ProtoSlot(h, o) = null /\ h[o].inh # ObjectPrototype
     THEN PushNew(own, getOwnPropertyNames(h, h[o].inh))
     ELSE own

\* foundProps[name] is truthy: foundProps is a plain object, so the names of
\* Object.prototype read as truthy before anything is recorded
Found(fp, name) == name \in fp \/ name \in RootNames

\* line 202: the own descriptor, else the one of the [[Prototype]]
Descriptor(h, o, name) ==
  IF HasOwn(h, o, name) THEN h[o].own[name]
  ELSE IF h[o].inh # ObjectPrototype /\ HasOwn(h, h[o].inh, name) THEN h[h[o].inh].own[name]
  ELSE IF h[o].inh = ObjectPrototype /\ name \in RootNames THEN Data(Fn, FALSE, TRUE)
  ELSE NoProp

(* ---------------------------------------------------------------------- *)
(* The spy framework as this file uses it (jasmine 1.x)                   *)
(* ---------------------------------------------------------------------- *)
NewSpy == [calls |-> <<>>, plan |-> "stub"]

\* obj[name] = v in non-strict code: a writable own data property is
\* overwritten, a non-writable or getter-only one (own or inherited) leaves the
\* object as it is, anything else creates an own enumerable writable property
Assign(h, o, name, v) ==
  LET w == Owner(h, o, name)
  IN IF w # ObjectPrototype /\ (h[w].own[name].kind = "getter" \/ ~h[w].own[name].writable)
     THEN h
     ELSE IF w = o
     THEN [h EXCEPT ![o].own[name].val = v]
     ELSE [h EXCEPT ![o].own[name] = Data(v, TRUE, TRUE)]

\* line 20, spyOn(obj, method): a new spy handle, assigned to obj[method]
spyOn(h, sp, obj, method) ==
  [heap |-> Assign(h, obj, method, Spy(Len(sp) + 1)),
   spies |-> Append(sp, NewSpy),
   ret |-> Spy(Len(sp) + 1)]

\* a spyIf without the test !jasmine.isSpy(methodToSpy)
spyIfAgain(h, sp, obj, method, behavior) ==
  IF isFunction(Get(h, obj, method))
  THEN spyOn(h, sp, obj, method)
  ELSE [heap |-> h, spies |-> sp, ret |-> Get(h, obj, method)]

\* lines 16-29; behavior "none" stands for an absent behavior argument
spyIf(h, sp, obj, method, behavior) ==
  LET methodToSpy == Get(h, obj, method)
  IN IF isFunction(methodToSpy) /\ ~isSpy(methodToSpy)
     THEN LET r == spyOn(h, sp, obj, method)
          IN IF behavior # "none"
             THEN [r EXCEPT !.spies[r.ret.id].plan = behavior]
             ELSE r
     ELSE [heap |-> h, spies |-> sp, ret |-> methodToSpy]

\* lines 94-96, spy.reset()
reset(sp, s) == [sp EXCEPT ![s].calls = <<>>]

\* an argument that is an array of names, or a single name
Arr(names) == [isArray |-> TRUE, v |-> names]
Str(name) == [isArray |-> FALSE, v |-> <<name>>]

\* lines 246-256: the keys set to true in the plain object methodsToSkip
getMethodsToSkip(excepts) ==
  IF excepts.isArray
  THEN {excepts.v[k] : k \in 1..Len(excepts.v)}
  ELSE {excepts.v[1]}

\* typeof methodsToSkip[method] !== 'undefined': a key set by getMethodsToSkip,
\* or a name the plain object inherits from Object.prototype
SkipDefined(m, method) == method \in m \/ method \in RootNames
\* methodsToSkip[method] is truthy: true, or an inherited function
SkipTruthy(m, method) == method \in m \/ method \in RootNames

\* lines 42-50, the callback of spyAllExcept
spyAllExceptVisitor(h, sp, m, targetObj, method) ==
  LET methodToSpy == Get(h, targetObj, method)
      skipMethod == SkipDefined(m, method) /\ SkipTruthy(m, method)
  IN IF ~isFunction(methodToSpy) \/ skipMethod
     THEN [heap |-> h, spies |-> sp]
     ELSE LET r == spyIf(h, sp, targetObj, method, "none")
          IN [heap |-> r.heap, spies |-> r.spies]

\* lines 108-118, the callback of resetAllExcept
resetAllExceptVisitor(h, sp, m, targetObj, method) ==
  LET methodToSpy == Get(h, targetObj, method)
      skipMethod == SkipDefined(m, method) /\ ~SkipTruthy(m, method)
  IN IF ~isFunction(methodToSpy) \/ skipMethod \/ ~isSpy(methodToSpy)
     THEN [heap |-> h, spies |-> sp]
     ELSE [heap |-> h, spies |-> reset(sp, methodToSpy.id)]

\* iterator(currentProto, name) for the operation in progress
Iterator(h, sp, m, targetObj, method) ==
  CASE op = "spyAllExcept" -> spyAllExceptVisitor(h, sp, m, targetObj, method)
    [] op = "resetAllExcept" -> resetAllExceptVisitor(h, sp, m, targetObj, method)
    [] OTHER -> [heap |-> h, spies |-> sp]

(* ---------------------------------------------------------------------- *)
(* forEachWritableProperties, lines 159-218, one action per step          *)
(* ---------------------------------------------------------------------- *)
Target == 1

\* lines 160-161: the walk starts at the target with nothing found
WalkStart ==
  /\ pc' = "while"
  /\ currentProto' = Target
  /\ foundProps' = {}
  /\ pending' = <<>>
  /\ props' = <<>>
  /\ visits' = <<>>
  /\ walked' = <<>>

\* a walk that does not record the names it has passed to the iterator
MarkFoundLost(fp, name) == fp

\* the name is recorded as found before the iterator runs (lines 168, 205)
MarkFound(fp, name) == fp \cup {name}

\* lines 166-170 and 204-207: record the name and call the iterator
Visit(name) ==
  LET r == Iterator(heap, spies, methodsToSkip, currentProto, name)
  IN /\ foundProps' = MarkFound(foundProps, name)
     /\ visits' = Append(visits, [level |-> currentProto, name |-> name])
     /\ heap' = r.heap
     /\ spies' = r.spies

\* line 163: while (currentProto), and the start of the for..in loop
WhileTest ==
  /\ pc = "while"
  /\ Len(walked) < MaxWalked
  /\ IF currentProto = null
     THEN /\ pc' = "done"
          /\ UNCHANGED <<pending, walked>>
     ELSE /\ pc' = "forin"
          /\ pending' = ForIn(heap, currentProto, {})
          /\ walked' = Append(walked, currentProto)
  /\ UNCHANGED <<heap, spies, op, methodsToSkip, currentProto, foundProps, props,
                 visits, callVars>>

\* lines 165-171: one iteration of the for..in loop
ForInStep ==
  /\ pc = "forin"
  /\ pending # <<>>
  /\ LET name == Head(pending)
     IN IF Found(foundProps, name)
        THEN /\ pc' = "forin"
             /\ pending' = Tail(pending)
             /\ UNCHANGED <<heap, spies, foundProps, visits>>
        ELSE IF ReadThrows(heap, currentProto, name)
        THEN /\ pc' = "threw"
             /\ UNCHANGED <<heap, spies, foundProps, visits, pending>>
        ELSE /\ pc' = "forin"
             /\ pending' = Tail(pending)
             /\ Visit(name)
  /\ UNCHANGED <<op, methodsToSkip, currentProto, props, walked, callVars>>

\* lines 177-195: collect the names of the second pass
CollectProps ==
  /\ pc = "forin"
  /\ pending = <<>>
  /\ pc' = "props"
  /\ props' = CollectedProps(heap, currentProto)
  /\ UNCHANGED <<heap, spies, op, methodsToSkip, currentProto, foundProps, pending,
                 visits, walked, callVars>>

\* line 201: the name is handled by the second pass
Unseen(fp, propName) == propName # "prototype" /\ ~Found(fp, propName)

\* lines 197-209: one call of the props.forEach callback
PropsStep ==
  /\ pc = "props"
  /\ props # <<>>
  /\ LET propName == Head(props)
         descriptor == Descriptor(heap, currentProto, propName)
     IN IF ReadThrows(heap, currentProto, propName)
        THEN /\ pc' = "threw"
             /\ UNCHANGED <<heap, spies, foundProps, visits, props>>
        ELSE IF Unseen(foundProps, propName) /\ descriptor.kind = "none"
        THEN /\ pc' = "threw"
             /\ UNCHANGED <<heap, spies, foundProps, visits, props>>
        ELSE IF Unseen(foundProps, propName) /\ descriptor.writable
        THEN /\ pc' = "props"
             /\ props' = Tail(props)
             /\ Visit(propName)
        ELSE /\ pc' = "props"
             /\ props' = Tail(props)
             /\ UNCHANGED <<heap, spies, foundProps, visits>>
  /\ UNCHANGED <<op, methodsToSkip, currentProto, pending, walked, callVars>>

\* lines 212-216: go up to the "prototype" slot, or stop
GoUp ==
  /\ pc = "props"
  /\ props = <<>>
  /\ pc' = "while"
  /\ currentProto' = ProtoSlot(heap, currentProto)
  /\ UNCHANGED <<heap, spies, op, methodsToSkip, foundProps, pending, props, visits,
                 walked, callVars>>

\* a caller's forEachWritableProperties(target, visitor) with a visitor that
\* only observes
forEachWritablePropertiesCall ==
  /\ pc = "idle"
  /\ op = "walk"
  /\ WalkStart
  /\ UNCHANGED <<heap, spies, op, methodsToSkip, callVars>>

(* ---------------------------------------------------------------------- *)
(* Targets                                                                *)
(* ---------------------------------------------------------------------- *)
\* the result of a function that returned no value, and a value it returned
undefined == <<>>
Some(v) == <<v>>

NoOwn == [n \in Names |-> NoProp]

\* the own properties an object of the chosen kinds may have: an ordinary name
\* takes any of the kinds, a name of Object.prototype is redefined as a method
OwnSets(kinds) ==
  {f \in [Names -> kinds \cup {NoProp}] :
     \A n \in RootNames : f[n] \in {NoProp, Data(Fn, TRUE, TRUE)}}

Defined(owns) == Cardinality({on \in Objs \X Names : owns[on[1]][on[2]].kind # "none"})

\* a target whose "prototype" slots chain the levels 1..n (the last one
\* pointing back to the target when cyc), each level inheriting from
\* Object.prototype or from the ancestor Anc
MkHeap(n, cyc, inhs, owns) ==
  [o \in Objs |->
     [inh |-> IF o \in 1..n THEN inhs[o] ELSE ObjectPrototype,
      slot |-> IF o < n THEN o + 1 ELSE IF o = n /\ cyc THEN Target ELSE null,
      own |-> owns[o]]]

Targets(kinds, cycs) ==
  {MkHeap(n, cyc, inhs, owns) :
     n \in Levels, cyc \in cycs,
     inhs \in [Levels -> {ObjectPrototype, Anc}],
     owns \in {w \in [Objs -> OwnSets(kinds)] : Defined(w) <= MaxProps}}

\* the levels of the target, in the order of its "prototype" slots
RECURSIVE Chain(_, _, _)
Chain(h, o, seen) ==
  IF o = null \/ o \in seen THEN <<>>
  ELSE <<o>> \o Chain(h, ProtoSlot(h, o), seen \cup {o})

\* an object the target does not reach has no properties
Reachable(h) ==
  LET lv == {Chain(h, Target, {})[k] : k \in 1..Len(Chain(h, Target, {}))}
  IN \A o \in Objs :
       o \notin lv /\ (\A l \in lv : h[l].inh # o) => h[o].own = NoOwn /\ h[o].inh = ObjectPrototype

WalkKinds ==
  {Data(Fn, e, w) : e \in BOOLEAN, w \in BOOLEAN} \cup {Getter(e) : e \in BOOLEAN}

IdleInit ==
  /\ spies = <<>>
  /\ methodsToSkip = {}
  /\ pc = "idle"
  /\ currentProto = null
  /\ foundProps = {}
  /\ pending = <<>>
  /\ props = <<>>
  /\ visits = <<>>
  /\ walked = <<>>
  /\ ret = <<>>
  /\ i = 0
  /\ callWithArg = undefined

Init ==
  /\ heap \in {h \in Targets(WalkKinds, BOOLEAN) : Reachable(h)}
  /\ op = "walk"
  /\ input = Arr(<<>>)
  /\ IdleInit

Walk == WhileTest \/ ForInStep \/ CollectProps \/ PropsStep \/ GoUp

Next == forEachWritablePropertiesCall \/ Walk

Spec == Init /\ [][Next]_vars

(* ---------------------------------------------------------------------- *)
(* spyAllExcept, resetAllExcept and resetAll on a target a test prepared  *)
(* ---------------------------------------------------------------------- *)
SpyKinds == {Data(Fn, e, w) : e \in BOOLEAN, w \in BOOLEAN} \cup {Data(Num, TRUE, TRUE)}

ExceptArgs == {Arr(<<>>), Str("foo"), Arr(<<"foo">>), Arr(<<"foo", "toString">>)}

\* the test installs a spy on a method of the target with spyOn
\* (spyOn refuses a member that is no function or is a spy already)
SetupSpyOn(name) ==
  /\ pc = "idle"
  /\ Len(spies) < Len(NameSeq)
  /\ ~ReadThrows(heap, Target, name)
  /\ isFunction(Get(heap, Target, name)) /\ ~isSpy(Get(heap, Target, name))
  /\ heap' = spyOn(heap, spies, Target, name).heap
  /\ spies' = spyOn(heap, spies, Target, name).spies
  /\ UNCHANGED <<op, methodsToSkip, walkVars, callVars>>

\* the code under test calls a spied method: the spy records the call
SpyCalled(name, args) ==
  /\ pc = "idle"
  /\ ~ReadThrows(heap, Target, name)
  /\ isSpy(Get(heap, Target, name))
  /\ Len(spies[Get(heap, Target, name).id].calls) < MaxCalls
  /\ spies' = [spies EXCEPT ![Get(heap, Target, name).id].calls = Append(@, [args |-> args])]
  /\ UNCHANGED <<heap, op, methodsToSkip, walkVars, callVars>>

\* lines 39-41: spyAllExcept(obj, excepts) up to the start of the walk
spyAllExceptCall(excepts) ==
  /\ pc = "idle"
  /\ op' = "spyAllExcept"
  /\ input' = [obj |-> heap, spies |-> spies, excepts |-> excepts]
  /\ methodsToSkip' = getMethodsToSkip(excepts)
  /\ WalkStart
  /\ UNCHANGED <<heap, spies, ret, i, callWithArg>>

\* lines 105-107: resetAllExcept(obj, excepts) up to the start of the walk;
\* resetAll(obj), lines 148-150, is the call with an empty array
resetAllExceptCall(excepts) ==
  /\ pc = "idle"
  /\ op' = "resetAllExcept"
  /\ input' = [obj |-> heap, spies |-> spies, excepts |-> excepts]
  /\ methodsToSkip' = getMethodsToSkip(excepts)
  /\ WalkStart
  /\ UNCHANGED <<heap, spies, ret, i, callWithArg>>

InitSpies ==
  /\ heap \in {h \in Targets(SpyKinds, {FALSE}) : Reachable(h)}
  /\ op = "none"
  /\ IdleInit
  /\ input = [obj |-> heap, spies |-> spies, excepts |-> Arr(<<>>)]

NextSpies ==
  \/ \E name \in Names : SetupSpyOn(name)
  \/ \E name \in Names : SpyCalled(name, <<1>>)
  \/ \E excepts \in ExceptArgs : spyAllExceptCall(excepts)
  \/ \E excepts \in ExceptArgs : resetAllExceptCall(excepts)
  \/ Walk

SpecSpies == InitSpies /\ [][NextSpies]_vars

(* ---------------------------------------------------------------------- *)
(* spyIf called twice in succession on the same method                    *)
(* ---------------------------------------------------------------------- *)
SpyIfKinds == SpyKinds \cup {Getter(FALSE)}

Behaviors == {"none", "andCallThrough"}

\* lines 16-29: one call spyIf(obj, method, behavior)
spyIfCall ==
  /\ pc = "idle"
  /\ Len(ret) < 2
  /\ IF ReadThrows(heap, Target, input.method)
     THEN /\ pc' = "threw"
          /\ UNCHANGED <<heap, spies, ret>>
     ELSE LET r == spyIf(heap, spies, Target, input.method, input.behavior)
          IN /\ pc' = "idle"
             /\ heap' = r.heap
             /\ spies' = r.spies
             /\ ret' = Append(ret, r.ret)
  /\ UNCHANGED <<op, methodsToSkip, currentProto, foundProps, pending, props, visits,
                 walked, input, i, callWithArg>>

InitSpyIf ==
  /\ heap \in {h \in Targets(SpyIfKinds, {FALSE}) : Reachable(h)}
  /\ op = "spyIf"
  /\ input \in [method : Names, behavior : Behaviors]
  /\ IdleInit

NextSpyIf == spyIfCall

SpecSpyIf == InitSpyIf /\ [][NextSpyIf]_vars

(* ---------------------------------------------------------------------- *)
(* getCallWithArg, lines 227-244                                          *)
(* ---------------------------------------------------------------------- *)
ArgVals == {1, 2}   \* the values passed as arguments

SeqsUpTo(S, n) == UNION {[1..k -> S] : k \in 0..n}

CallRecords == {[args |-> a] : a \in SeqsUpTo(ArgVals, MaxArgs)}

\* a search that looks at the first argument only
ContainsAtHead(args, arg) == Len(args) > 0 /\ args[1] = arg

\* args.indexOf(arg) != -1
Contains(args, arg) == \E k \in 1..Len(args) : args[k] = arg

\* lines 228-232: calls = obj[method].calls, the loop starts at i = 0
getCallWithArgCall ==
  /\ pc = "idle"
  /\ pc' = "loop"
  /\ i' = 0
  /\ callWithArg' = undefined
  /\ UNCHANGED <<heap, spies, op, methodsToSkip, currentProto, foundProps, pending,
                 props, visits, walked, input, ret>>

\* lines 234-241: one iteration of the loop over calls
LoopStep ==
  /\ pc = "loop"
  /\ LET calls == spies[Get(heap, Target, input.method).id].calls
     IN /\ i < Len(calls)
        /\ IF Contains(calls[i + 1].args, input.arg)
           THEN /\ callWithArg' = Some(calls[i + 1])
                /\ pc' = "return"
                /\ i' = i
           ELSE /\ i' = i + 1
                /\ UNCHANGED <<callWithArg, pc>>
  /\ UNCHANGED <<heap, spies, op, methodsToSkip, currentProto, foundProps, pending,
                 props, visits, walked, input, ret>>

\* lines 234 and 243: the loop ends, callWithArg is returned
LoopExit ==
  /\ \/ pc = "return"
     \/ pc = "loop" /\ i >= Len(spies[Get(heap, Target, input.method).id].calls)
  /\ pc' = "done"
  /\ ret' = <<callWithArg>>
  /\ UNCHANGED <<heap, spies, op, methodsToSkip, currentProto, foundProps, pending,
                 props, visits, walked, input, i, callWithArg>>

\* a target whose method foo is a spy with the given call records
SpiedTarget ==
  [o \in Objs |->
     [inh |-> ObjectPrototype, slot |-> null,
      own |-> IF o = Target
              THEN [NoOwn EXCEPT !["foo"] = Data(Spy(1), TRUE, TRUE)]
              ELSE NoOwn]]

InitCall ==
  /\ heap = SpiedTarget
  /\ op = "getCallWithArg"
  /\ \E calls \in SeqsUpTo(CallRecords, MaxCalls), arg \in ArgVals :
       /\ spies = <<[calls |-> calls, plan |-> "stub"]>>
       /\ input = [method |-> "foo", arg |-> arg, calls |-> calls]
  /\ methodsToSkip = {}
  /\ pc = "idle"
  /\ currentProto = null
  /\ foundProps = {}
  /\ pending = <<>>
  /\ props = <<>>
  /\ visits = <<>>
  /\ walked = <<>>
  /\ ret = <<>>
  /\ i = 0
  /\ callWithArg = undefined

NextCall == getCallWithArgCall \/ LoopStep \/ LoopExit

SpecCall == InitCall /\ [][NextCall]_vars

(* ---------------------------------------------------------------------- *)
(* Properties of the walk (specification Spec)                            *)
(* ---------------------------------------------------------------------- *)
VisitsOf(name) == SelectSeq(visits, LAMBDA v : v.name = name)

\* C1: during one walk no property name is passed to the visitor more than
\* once, whatever the chain of "prototype" slots and wherever the name is
\* defined or found (for..in pass or own-property-names pass).
C1_NoNameVisitedTwice ==
  \A a, b \in 1..Len(visits) : a # b => visits[a].name # visits[b].name

\* a finished walk over two levels that both define foo, the second level also
\* inheriting foo from an ancestor folded into its second pass; foo was visited
C1_Witness ==
  /\ pc = "done"
  /\ walked = <<1, 2>>
  /\ heap[1].own["foo"] = Data(Fn, TRUE, TRUE)
  /\ heap[2].own["foo"] = Data(Fn, TRUE, TRUE)
  /\ heap[2].inh = Anc
  /\ heap[Anc].own["foo"] = Data(Fn, TRUE, TRUE)
  /\ InSeq(CollectedProps(heap, 2), "foo")
  /\ Len(VisitsOf("foo")) = 1

\* the names a level offers to the walk: those for..in enumerates, its own
\* names, and the own names of the ancestor folded in at a level without slot
LevelNames(h, l) ==
  {n \in Names :
     \/ InSeq(ForIn(h, l, {}), n)
     \/ HasOwn(h, l, n)
     \/ ProtoSlot(h, l) = null /\ h[l].inh # ObjectPrototype /\ HasOwn(h, h[l].inh, n)}

\* name is accessible and writable at level l
WritableAccessibleAt(h, l, n) ==
  /\ n \in LevelNames(h, l)
  /\ ~ReadThrows(h, l, n)
  /\ Owner(h, l, n) # ObjectPrototype
  /\ h[Owner(h, l, n)].own[n].writable

Min(S) == CHOOSE x \in S : \A y \in S : x <= y

\* C2: a finished walk has called the visitor exactly once for every name that
\* is accessible and writable at some level, with the most-derived such level,
\* and for no other name.
C2_ExactlyOnceMostDerived ==
  pc = "done" =>
    \A n \in Names :
      LET ls == {k \in 1..Len(walked) : WritableAccessibleAt(heap, walked[k], n)}
      IN VisitsOf(n) = IF ls = {} THEN <<>>
                       ELSE <<[level |-> walked[Min(ls)], name |-> n]>>

\* the levels of the chain up to and including level l
LevelsUpTo(h, l) ==
  LET c == Chain(h, Target, {})
  IN {c[m] : m \in {m \in 1..Len(c) : \E j \in m..Len(c) : c[j] = l}}

\* C3: a name that some level defines as a non-writable property is never
\* passed to the visitor, neither at that level nor at a later one.
C3_NonWritableNeverVisited ==
  \A k \in 1..Len(visits) :
    \A d \in LevelsUpTo(heap, visits[k].level) :
      heap[d].own[visits[k].name].kind = "data" => heap[d].own[visits[k].name].writable

\* C4: the walk never fails to its caller: a property read that throws is
\* swallowed and the walk goes on.
C4_WalkNeverThrows == pc # "threw"

\* C10: the walk processes each level of the chain once (and so ends), also
\* when a "prototype" slot refers back to a level already walked.
C10_EachLevelOnce ==
  \A a, b \in 1..Len(walked) : a # b => walked[a] # walked[b]

(* ---------------------------------------------------------------------- *)
(* Properties of the spy helpers (specification SpecSpies)                *)
(* ---------------------------------------------------------------------- *)
\* C5: resetAllExcept never resets a spy whose name is excepted: after the
\* call such a spy has the recorded calls it had before.
C5_ExceptedSpiesKeepCalls ==
  op = "resetAllExcept" =>
    \A n \in getMethodsToSkip(input.excepts) \cap Names :
      LET v == Get(input.obj, Target, n)
      IN isSpy(v) => spies[v.id].calls = input.spies[v.id].calls

\* C6: after spyAllExcept every function-valued member of the target (here:
\* its own enumerable writable ones) that is not excepted is a spy, whatever
\* its name, and every excepted member is what it was.
C6_AllButExceptedSpied ==
  pc = "done" /\ op = "spyAllExcept" =>
    \A n \in Names :
      LET d == input.obj[Target].own[n]
      IN d.kind = "data" /\ d.enum /\ d.writable /\ isFunction(d.val) =>
           IF n \in getMethodsToSkip(input.excepts)
           THEN heap[Target].own[n] = d
           ELSE isSpy(heap[Target].own[n].val)

\* C7: after resetAll every own member of the target that is a spy has an
\* empty call list, enumerable or not and whatever its name.
C7_ResetAllClearsEverySpy ==
  pc = "done" /\ op = "resetAllExcept" /\ input.excepts = Arr(<<>>) =>
    \A n \in Names :
      LET d == heap[Target].own[n]
      IN d.kind = "data" /\ isSpy(d.val) => spies[d.val.id].calls = <<>>

(* ---------------------------------------------------------------------- *)
(* Properties of spyIf (specification SpecSpyIf)                          *)
(* ---------------------------------------------------------------------- *)
\* an assignment obj[name] = v takes effect
Assignable(h, o, name) ==
  \/ Owner(h, o, name) = ObjectPrototype
  \/ /\ h[Owner(h, o, name)].own[name].kind = "data"
     /\ h[Owner(h, o, name)].own[name].writable

\* a step is a call of spyIf that returned
Returned == Len(ret') = Len(ret) + 1

HasArg(call, arg) == arg \in {call.args[k] : k \in DOMAIN call.args}

\* the first call record, in recording order, that holds arg
FirstWith(calls, arg) ==
  LET ks == {k \in 1..Len(calls) : HasArg(calls[k], arg)}
  IN IF ks = {} THEN undefined ELSE Some(calls[Min(ks)])

\* C9: getCallWithArg returns the first call record, in recording order, whose
\* arguments contain arg, undefined when there is none, and leaves the call
\* list as it was.
C9_FirstCallWithArg ==
  /\ pc = "done" => ret = <<FirstWith(input.calls, input.arg)>>
  /\ spies[1].calls = input.calls

\* the example [[1,2],[42,3],[5]] with 42, over the values 1 and 2: the second
\* record is returned, not the first and not the last
C9_Witness ==
  /\ pc = "done"
  /\ input.calls = <<[args |-> <<1, 1>>], [args |-> <<2, 1>>], [args |-> <<1>>]>>
  /\ input.arg = 2
  /\ ret = <<Some([args |-> <<2, 1>>])>>

====
